---- MODULE Spec2Model ----
(***************************************************************************)
(* A model of the DatabaseOptimizer class (service/DatabaseOptimizer.js):  *)
(* the lazily connected connection manager (connectToDatabase, runQuery,   *)
(* closeConnection), the per-table analysis (analyzeTable), the data-type  *)
(* pass (getDataTypeOptimizations) and the orchestration (analyzeTables).  *)
(*                                                                         *)
(* JavaScript strings whose characters matter (column types, table-status  *)
(* comments) are sequences of one-character strings, so that split, join,  *)
(* includes and toLowerCase are computed character by character.           *)
(***************************************************************************)
EXTENDS Integers, Sequences, FiniteSets, TLC

VARIABLES
    connection,   \* this.connection: 0 for null, else the index of a driver connection
    conns,        \* the driver connections created so far, in creation order
    q,            \* the runQuery calls in flight, one slot per parallel call
    batch,        \* who awaits the runQuery slots: "none", "list", "table", "client"
    ctask,        \* a direct call of connectToDatabase()
    ktask,        \* a caller closing the connection (closeConnection, awaited)
    apc,          \* position of the analyzeTables() call
    tableNames,   \* analyzeTables: const tableNames
    idx,          \* analyzeTables: position of the for-of loop in tableNames
    tableStats,   \* analyzeTables: const tableStats of the current iteration
    suggestions,  \* analyzeTables: const suggestions
    result,       \* what analyzeTables() resolved to
    caught,       \* analyzeTables: the catch block ran
    history,      \* what analyzeTable returned so far, one entry per call (history)
    dtTable,      \* getDataTypeOptimizations: tableName
    dtColumns,    \* getDataTypeOptimizations: columnDataTypes
    dtResult,     \* getDataTypeOptimizations: the returned suggestions
    uiRows,       \* unused-index extraction: tableStatus
    uiResult      \* unused-index extraction: unusedIndexes

mgrVars == <<connection, conns, q, batch, ctask, ktask>>
runVars == <<apc, tableNames, idx, tableStats, suggestions, result, caught, history>>
dtVars == <<dtTable, dtColumns, dtResult>>
uiVars == <<uiRows, uiResult>>
vars == <<mgrVars, runVars, dtVars, uiVars>>

(***************************************************************************)
(* Bounds of the model.                                                    *)
(***************************************************************************)
MaxTables == 2    \* table names the listing may return
MaxCols == 2      \* columns of a columnDataTypes argument
MaxRows == 2      \* rows of a SHOW TABLE STATUS result
MaxConn == 3      \* driver connections created in one behaviour
MaxCalls == 2     \* runQuery calls a direct caller has in flight at once

\* What a pending result is before the function has returned.
Pending == "pending"

(***************************************************************************)
(* Strings.                                                                *)
(***************************************************************************)
sUnused == <<"U","n","u","s","e","d">>
sExample == <<"U","n","u","s","e","d",","," ","i","n","d","e","x","_","a",";"," ","A","c","t","i","v","e",","," ","i","n","d","e","x","_","b">>
sUnusedIndexA == <<"U","n","u","s","e","d",","," ","i","n","d","e","x","_","a">>
sActive == <<"A","c","t","i","v","e",","," ","i","n","d","e","x","_","b">>
sTwoUnused == <<"U","n","u","s","e","d"," ","a",",","U","n","u","s","e","d"," ","b">>
sTwoUnusedJoined == <<"U","n","u","s","e","d"," ","a",","," ","U","n","u","s","e","d"," ","b">>
sTailUnused == <<"a",",","U","n","u","s","e","d">>
sEmpty == <<>>

sInt == <<"i","n","t">>
sIntUpper == <<"I","N","T">>
sBigIntMixed == <<"B","i","g","I","n","t">>
sBigint == <<"b","i","g","i","n","t">>
sSmallint == <<"s","m","a","l","l","i","n","t">>
sVarchar == <<"v","a","r","c","h","a","r">>
sDecimal == <<"d","e","c","i","m","a","l">>
sFloat == <<"f","l","o","a","t">>
sDouble == <<"d","o","u","b","l","e">>
sChar == <<"c","h","a","r">>
sText == <<"t","e","x","t">>
sLongtext == <<"l","o","n","g","t","e","x","t">>
sDate == <<"d","a","t","e">>
sDatetime == <<"d","a","t","e","t","i","m","e">>
sIntWidth == <<"i","n","t","(","1","1",")">>

\* String.prototype.toLowerCase, one character
LowerChar(c) ==
    CASE c = "A" -> "a" [] c = "B" -> "b" [] c = "C" -> "c" [] c = "D" -> "d"
      [] c = "E" -> "e" [] c = "F" -> "f" [] c = "G" -> "g" [] c = "H" -> "h"
      [] c = "I" -> "i" [] c = "J" -> "j" [] c = "K" -> "k" [] c = "L" -> "l"
      [] c = "M" -> "m" [] c = "N" -> "n" [] c = "O" -> "o" [] c = "P" -> "p"
      [] c = "Q" -> "q" [] c = "R" -> "r" [] c = "S" -> "s" [] c = "T" -> "t"
      [] c = "U" -> "u" [] c = "V" -> "v" [] c = "W" -> "w" [] c = "X" -> "x"
      [] c = "Y" -> "y" [] c = "Z" -> "z" [] OTHER -> c

\* String.prototype.toLowerCase
toLowerCase(s) == [i \in 1..Len(s) |-> LowerChar(s[i])]

\* String.prototype.includes
includes(s, pat) ==
    \E i \in 1..(Len(s) - Len(pat) + 1) : SubSeq(s, i, i + Len(pat) - 1) = pat

\* the k-th smallest member of a set of positions
KthOf(P, k) == CHOOSE i \in P : Cardinality({j \in P : j <= i}) = k

\* String.prototype.split with a one-character separator: the fragments
\* between consecutive separators; never empty, the empty string splits into
\* one empty fragment
split(s, sep) ==
    LET P == {i \in 1..Len(s) : s[i] = sep}
        n == Cardinality(P) + 1
        first(k) == IF k = 1 THEN 1 ELSE KthOf(P, k - 1) + 1
        last(k) == IF k = n THEN Len(s) ELSE KthOf(P, k) - 1
    IN  [k \in 1..n |-> SubSeq(s, first(k), last(k))]

\* Array.prototype.join of strings
join(seq, sep) ==
    LET J[i \in 0..Len(seq)] ==
            IF i = 0 THEN <<>>
            ELSE IF i = 1 THEN seq[1]
            ELSE J[i - 1] \o sep \o seq[i]
    IN  J[Len(seq)]

sCommaSpace == <<",", " ">>

(***************************************************************************)
(* analyzeTable: the unused-index extraction (tableStatus.reduce).         *)
(***************************************************************************)
\* a plausible slip: the comment split on ";" instead of ","
unusedIndexesSplitSemicolon(tableStatus) ==
    LET R[i \in 0..Len(tableStatus)] ==
            IF i = 0 THEN <<>>
            ELSE LET row == tableStatus[i]
                     unused == SelectSeq(split(row.Comment, ";"), LAMBDA index : includes(index, sUnused))
                 IN  IF Len(unused) > 0
                     THEN Append(R[i - 1], [index_name |-> join(unused, sCommaSpace), table_name |-> row.Name])
                     ELSE R[i - 1]
    IN  R[Len(tableStatus)]

unusedIndexes(tableStatus) ==
    LET R[i \in 0..Len(tableStatus)] ==
            IF i = 0 THEN <<>>
            ELSE LET row == tableStatus[i]
                     indexes == split(row.Comment, ",")
                     \* indexes.filter(...)
                     unused == SelectSeq(indexes, LAMBDA index : includes(index, sUnused))
                 IN  IF Len(unused) > 0
                     THEN Append(R[i - 1], [index_name |-> join(unused, sCommaSpace), table_name |-> row.Name])
                     ELSE R[i - 1]
    IN  R[Len(tableStatus)]

(***************************************************************************)
(* getDataTypeOptimizations.                                               *)
(***************************************************************************)
dataTypeKeys == {sInt, sBigint, sFloat, sDouble, sChar, sText, sLongtext, sDate}

dataTypeMap(k) ==
    CASE k = sInt -> sSmallint
      [] k = sBigint -> sInt
      [] k = sFloat -> sDecimal
      [] k = sDouble -> sDecimal
      [] k = sChar -> sVarchar
      [] k = sText -> sVarchar
      [] k = sLongtext -> sText
      [] k = sDate -> sDatetime

\* the text of one data-type suggestion, by its parts
dataTypeSuggestion(tableName, columnName, currentDataType, optimizedDataType) ==
    [tableName |-> tableName,
     suggestion |-> [rule |-> "data-type", column |-> columnName,
                     from |-> currentDataType, to |-> optimizedDataType]]

\* a plausible slip: the declared type looked up without lower-casing it
getDataTypeOptimizationsNoLower(tableName, columnDataTypes) ==
    LET G[i \in 0..Len(columnDataTypes)] ==
            IF i = 0 THEN <<>>
            ELSE LET column == columnDataTypes[i]
                     currentDataType == column.COLUMN_TYPE
                 IN  IF currentDataType \in dataTypeKeys /\ currentDataType # dataTypeMap(currentDataType)
                     THEN Append(G[i - 1], dataTypeSuggestion(tableName, column.COLUMN_NAME,
                                               currentDataType, dataTypeMap(currentDataType)))
                     ELSE G[i - 1]
    IN  G[Len(columnDataTypes)]

getDataTypeOptimizations(tableName, columnDataTypes) ==
    LET G[i \in 0..Len(columnDataTypes)] ==
            IF i = 0 THEN <<>>
            ELSE LET column == columnDataTypes[i]
                     columnName == column.COLUMN_NAME
                     currentDataType == toLowerCase(column.COLUMN_TYPE)
                 IN  IF currentDataType \in dataTypeKeys /\ currentDataType # dataTypeMap(currentDataType)
                     THEN Append(G[i - 1], dataTypeSuggestion(tableName, columnName,
                                               currentDataType, dataTypeMap(currentDataType)))
                     ELSE G[i - 1]
    IN  G[Len(columnDataTypes)]

(***************************************************************************)
(* Inputs.                                                                 *)
(***************************************************************************)
tableNamePool == <<"users", "orders", "items", "logs">>
Tables == {tableNamePool[i] : i \in 1..(IF MaxTables < Len(tableNamePool) THEN MaxTables ELSE Len(tableNamePool))}

\* all sequences over S of length at most n
SeqsUpTo(S, n) == UNION {[1..k -> S] : k \in 0..n}

ColumnNames == {"age", "name"}
ColumnTypes == {sInt, sIntUpper, sBigIntMixed, sVarchar, sIntWidth, sText, sSmallint}
Columns == [COLUMN_NAME : ColumnNames, COLUMN_TYPE : ColumnTypes]

Comments == {sEmpty, sExample, sActive, sUnused, sTwoUnused, sTailUnused}
StatusRows == [Name : Tables, Comment : Comments]

(***************************************************************************)
(* What the database answers.  A query is named by its kind: "tables"      *)
(* (SHOW TABLES), "indexes", "rowCount", "cardinality", "status", "types"  *)
(* (the five queries of analyzeTable, in the order of Promise.all) and     *)
(* "ping", a query of a direct caller of runQuery.                         *)
(***************************************************************************)
NumParallel == 5
PartitionThreshold == 100000

Slots == 1..NumParallel
tableQueryKinds == <<"indexes", "rowCount", "cardinality", "status", "types">>

\* table listings: the names are distinct
Listings == {l \in SeqsUpTo(Tables, MaxTables) : \A i, j \in 1..Len(l) : i # j => l[i] # l[j]}

primaryIndex == [Key_name |-> "PRIMARY", Index_type |-> "BTREE", Non_unique |-> 0]
uniqueIndex == [Key_name |-> "idx_user", Index_type |-> "BTREE", Non_unique |-> 0]
IndexResults == {<<>>, <<primaryIndex, uniqueIndex>>}
RowCounts == {99999, 100000, 100001, 150000}
CardinalityResults == {<<>>, <<[COLUMN_NAME |-> "status", cardinality |-> 1]>>}
StatusComments == {sEmpty, sTwoUnused}
\* the columns are not in alphabetical order, and both have a downgrade
TypeResults == {<<[COLUMN_NAME |-> "name", COLUMN_TYPE |-> sText],
                  [COLUMN_NAME |-> "age", COLUMN_TYPE |-> sIntUpper]>>}

QueryResults(kind, arg) ==
    CASE kind = "tables" -> {[k \in 1..Len(l) |-> [Tables_in_db |-> l[k]]] : l \in Listings}
      [] kind = "indexes" -> IndexResults
      [] kind = "rowCount" -> {<<[rowCount |-> n]>> : n \in RowCounts}
      [] kind = "cardinality" -> CardinalityResults
      [] kind = "status" -> {<<[Name |-> arg, Comment |-> c]>> : c \in StatusComments}
      [] kind = "types" -> TypeResults
      [] OTHER -> {<<[one |-> 1]>>}

(***************************************************************************)
(* The program state as one record, so that the synchronous part of a      *)
(* call (up to its first await on the driver) and the continuation a       *)
(* driver callback resumes are functions from state to state.              *)
(***************************************************************************)
Cur ==
    [connection |-> connection, conns |-> conns, q |-> q, batch |-> batch,
     ctask |-> ctask, ktask |-> ktask, apc |-> apc, tableNames |-> tableNames,
     idx |-> idx, tableStats |-> tableStats, suggestions |-> suggestions,
     result |-> result, caught |-> caught, history |-> history]

Install(m) ==
    /\ connection' = m.connection
    /\ conns' = m.conns
    /\ q' = m.q
    /\ batch' = m.batch
    /\ ctask' = m.ctask
    /\ ktask' = m.ktask
    /\ apc' = m.apc
    /\ tableNames' = m.tableNames
    /\ idx' = m.idx
    /\ tableStats' = m.tableStats
    /\ suggestions' = m.suggestions
    /\ result' = m.result
    /\ caught' = m.caught
    /\ history' = m.history

IdleSlot == [pc |-> "idle", kind |-> "", arg |-> "", conn |-> 0, attempt |-> 0,
             issuedOn |-> "none", res |-> <<>>]
IdleConnect == [pc |-> "idle", wasConnected |-> FALSE, created |-> 0, handshakes |-> 0]
IdleClose == [pc |-> "idle", ends |-> 0, chain |-> 0, chainEnds |-> 0, inChain |-> FALSE]

\* who waits for a driver callback
NoOne == [t |-> "none", i |-> 0]
TheSlot(i) == [t |-> "q", i |-> i]
TheConnectCall == [t |-> "c", i |-> 0]
TheCloseCall == [t |-> "k", i |-> 0]
TheRun == [t |-> "a", i |-> 0]

(***************************************************************************)
(* The driver connection: connection.state is "connected" between the      *)
(* handshake's success and the end of the connection, else "disconnected". *)
(***************************************************************************)
state(m, c) == IF m.conns[c].phase = "open" THEN "connected" ELSE "disconnected"

\* !this.connection || this.connection.state === 'disconnected'
isDisconnected(m) == m.connection = 0 \/ state(m, m.connection) = "disconnected"

\* mysql.createConnection(...), assigned to this.connection
createConnection(m) ==
    [m EXCEPT !.conns = Append(@, [phase |-> "new", queue |-> <<>>, ends |-> 0]),
              !.connection = Len(m.conns) + 1]

\* an operation handed to the driver on this.connection
enqueue(m, op, who, kind, arg) ==
    [m EXCEPT !.conns[m.connection].queue =
                  Append(@, [op |-> op, who |-> who, kind |-> kind, arg |-> arg])]

\* this.connection.connect(callback)
connect(m, who) ==
    LET e == enqueue(m, "connect", who, "", "") IN
    [e EXCEPT !.conns[m.connection].phase = IF @ = "new" THEN "opening" ELSE @]

\* connectToDatabase(), up to the await of the driver's callback
connectToDatabase(m, who) ==
    connect(IF isDisconnected(m) THEN createConnection(m) ELSE m, who)

\* runQuery(): the query handed to the driver on this.connection
issueQuery(m, i) ==
    LET e == enqueue(m, "query", TheSlot(i), m.q[i].kind, m.q[i].arg) IN
    [e EXCEPT !.q[i].pc = "querying",
              !.q[i].conn = m.connection,
              !.q[i].issuedOn = state(m, m.connection)]

\* runQuery(query, values), up to its first await
runQuery(m, i, kind, arg) ==
    LET s == [m EXCEPT !.q[i] = [IdleSlot EXCEPT !.kind = kind, !.arg = arg]] IN
    IF isDisconnected(s)
    THEN LET c == connectToDatabase(s, TheSlot(i)) IN
         [c EXCEPT !.q[i].pc = "connecting", !.q[i].attempt = c.connection]
    ELSE issueQuery(s, i)

\* a plausible slip: end() called whenever a connection object exists
closeConnectionNoStateCheck(m, who) ==
    IF m.connection # 0
    THEN LET e == enqueue(m, "end", who, "", "") IN
         [e EXCEPT !.conns[m.connection].ends = @ + 1]
    ELSE m

\* closeConnection(), up to the await of the driver's callback; the state is
\* unchanged when there is nothing to close
closeConnection(m, who) ==
    IF m.connection # 0 /\ state(m, m.connection) # "disconnected"
    THEN LET e == enqueue(m, "end", who, "", "") IN
         [e EXCEPT !.conns[m.connection].ends = @ + 1]
    ELSE m

(***************************************************************************)
(* analyzeTable: the statistics of one table.                              *)
(***************************************************************************)
\* the object {}: it holds no property, and reading one yields undefined
EmptyRecord == [f \in {} |-> FALSE]

\* obj.f is not undefined
Has(obj, f) == f \in DOMAIN obj

\* indexes.some(...): the foreign-key heuristic
hasForeignKeys(indexes) ==
    \E k \in 1..Len(indexes) :
        /\ indexes[k].Key_name # "PRIMARY"
        /\ indexes[k].Index_type = "BTREE"
        /\ indexes[k].Non_unique = 0

\* const tableStats = {...} from the five results of Promise.all
tableStatsOf(indexes, rowCountResult, columnCardinalityResult, tableStatus, columnDataTypesResult) ==
    [indexCount |-> Len(indexes),
     rowCount |-> rowCountResult[1].rowCount,
     columnCardinality |-> columnCardinalityResult,
     unusedIndexes |-> unusedIndexes(tableStatus),
     hasForeignKeys |-> hasForeignKeys(indexes),
     columnDataTypes |-> columnDataTypesResult]

(***************************************************************************)
(* analyzeTables: the rules applied to the statistics of one table.        *)
(***************************************************************************)
Suggest(tableName, rule) == [tableName |-> tableName, suggestion |-> [rule |-> rule]]

\* a plausible slip: the boundary included
partitioningRuleInclusive(stats) == Has(stats, "rowCount") /\ stats.rowCount >= PartitionThreshold

\* tableStats.rowCount > 100000 (undefined > 100000 is false)
partitioningRule(stats) == Has(stats, "rowCount") /\ stats.rowCount > PartitionThreshold

\* array.map(row => row[f])
mapField(rows, f) == [k \in 1..Len(rows) |-> rows[k][f]]

\* a plausible slip: the data-type pass run before the five rules
applyRulesDataTypesFirst(tableName, stats, sugg) ==
    LET s0 == IF Has(stats, "columnDataTypes")
              THEN sugg \o getDataTypeOptimizations(tableName, stats.columnDataTypes) ELSE sugg
        s1 == IF Has(stats, "indexCount") /\ stats.indexCount = 0 THEN Append(s0, Suggest(tableName, "add-index")) ELSE s0
        s2 == IF partitioningRule(stats) THEN Append(s1, Suggest(tableName, "partitioning")) ELSE s1
        s3 == IF Len(stats.columnCardinality) > 0
              THEN Append(s2, [tableName |-> tableName,
                               suggestion |-> [rule |-> "low-cardinality",
                                               columns |-> mapField(stats.columnCardinality, "COLUMN_NAME")]])
              ELSE s2
        s4 == IF Len(stats.unusedIndexes) > 0
              THEN Append(s3, [tableName |-> tableName,
                               suggestion |-> [rule |-> "unused-indexes",
                                               indexes |-> join(mapField(stats.unusedIndexes, "index_name"), sCommaSpace)]])
              ELSE s3
        s5 == IF ~stats.hasForeignKeys THEN Append(s4, Suggest(tableName, "foreign-keys")) ELSE s4
    IN  IF ~Has(stats, "columnCardinality") THEN [threw |-> TRUE, suggestions |-> s0]
        ELSE [threw |-> FALSE, suggestions |-> s5]

\* the body of the for-of loop after analyzeTable has returned: the suggestions
\* pushed, and whether a property access on undefined threw a TypeError
applyRules(tableName, stats, sugg) ==
    LET \* undefined === 0 is false
        s1 == IF Has(stats, "indexCount") /\ stats.indexCount = 0
              THEN Append(sugg, Suggest(tableName, "add-index")) ELSE sugg
        s2 == IF partitioningRule(stats)
              THEN Append(s1, Suggest(tableName, "partitioning")) ELSE s1
        s3 == IF Len(stats.columnCardinality) > 0
              THEN Append(s2, [tableName |-> tableName,
                               suggestion |-> [rule |-> "low-cardinality",
                                               columns |-> mapField(stats.columnCardinality, "COLUMN_NAME")]])
              ELSE s2
        s4 == IF Len(stats.unusedIndexes) > 0
              THEN Append(s3, [tableName |-> tableName,
                               suggestion |-> [rule |-> "unused-indexes",
                                               indexes |-> join(mapField(stats.unusedIndexes, "index_name"), sCommaSpace)]])
              ELSE s3
        \* !undefined is true
        s5 == IF ~Has(stats, "hasForeignKeys") \/ ~stats.hasForeignKeys
              THEN Append(s4, Suggest(tableName, "foreign-keys")) ELSE s4
    IN  \* undefined.length and for-of over undefined throw a TypeError
        IF ~Has(stats, "columnCardinality") THEN [threw |-> TRUE, suggestions |-> s2]
        ELSE IF ~Has(stats, "unusedIndexes") THEN [threw |-> TRUE, suggestions |-> s3]
        ELSE IF ~Has(stats, "columnDataTypes") THEN [threw |-> TRUE, suggestions |-> s5]
        ELSE [threw |-> FALSE,
              suggestions |-> s5 \o getDataTypeOptimizations(tableName, stats.columnDataTypes)]

(***************************************************************************)
(* The state of the parts a specification leaves alone.                    *)
(***************************************************************************)
IdleDT == dtTable = "" /\ dtColumns = <<>> /\ dtResult = Pending
IdleUI == uiRows = <<>> /\ uiResult = Pending
IdleMgr ==
    /\ connection = 0
    /\ conns = <<>>
    /\ q = [i \in Slots |-> IdleSlot]
    /\ batch = "none"
    /\ ctask = IdleConnect
    /\ ktask = IdleClose
IdleRun ==
    /\ apc = "idle"
    /\ tableNames = <<>>
    /\ idx = 0
    /\ tableStats = "none"
    /\ suggestions = <<>>
    /\ result = Pending
    /\ caught = FALSE
    /\ history = <<>>

(***************************************************************************)
(* analyzeTables, getTableNames and analyzeTable as continuations: each    *)
(* runs until every call in flight waits for the driver again.             *)
(***************************************************************************)
\* the end of the try block: closeConnection() is called and not awaited,
\* and the suggestions are returned
finish(m) ==
    LET c == closeConnection(m, NoOne) IN
    [c EXCEPT !.result = m.suggestions, !.apc = "done"]

\* the catch block of analyzeTables
catchBlock(m) ==
    LET c == closeConnection(m, NoOne) IN
    [c EXCEPT !.caught = TRUE, !.result = <<>>, !.apc = "done"]

\* analyzeTable(tableName), up to the await of Promise.all: the five runQuery
\* calls start one after the other
analyzeTable(m, tableName) ==
    LET F[k \in 0..NumParallel] ==
            IF k = 0 THEN [m EXCEPT !.batch = "table"]
            ELSE runQuery(F[k - 1], k, tableQueryKinds[k], tableName)
    IN  F[NumParallel]

\* the head of the for-of loop over tableNames
loopStep(m) ==
    IF m.idx <= Len(m.tableNames)
    THEN analyzeTable([m EXCEPT !.apc = "table"], m.tableNames[m.idx])
    ELSE finish(m)

\* the loop body once analyzeTable has returned tableStats
afterAnalyzeTable(m, stats) ==
    LET tableName == m.tableNames[m.idx]
        r == applyRules(tableName, stats, m.suggestions)
        ok == stats # EmptyRecord
        m1 == [m EXCEPT !.tableStats = stats,
                        !.suggestions = r.suggestions,
                        !.batch = "none",
                        !.history = Append(@, [tableName |-> tableName, ok |-> ok,
                                               columns |-> IF ok THEN stats.columnDataTypes ELSE <<>>])]
    IN  IF r.threw THEN catchBlock(m1) ELSE loopStep([m1 EXCEPT !.idx = @ + 1])

\* getTableNames(), up to the await of runQuery
getTableNames(m) == runQuery([m EXCEPT !.batch = "list"], 1, "tables", "")

\* analyzeTables once getTableNames has returned
afterGetTableNames(m, names) ==
    loopStep([m EXCEPT !.tableNames = names, !.idx = 1, !.batch = "none",
                       !.q = [i \in Slots |-> IdleSlot]])

\* the runQuery call of slot i has settled: whoever awaits it goes on
settle(m, i) ==
    IF m.batch = "list" /\ i = 1
    THEN \* getTableNames: the first column of each row, or [] in the catch block
         afterGetTableNames(m, IF m.q[1].pc = "ok" THEN mapField(m.q[1].res, "Tables_in_db") ELSE <<>>)
    ELSE IF m.batch = "table"
    THEN IF m.q[i].pc = "err"
         THEN \* Promise.all rejects; the catch block of analyzeTable returns {}
              afterAnalyzeTable(m, EmptyRecord)
         ELSE IF \A k \in Slots : m.q[k].pc = "ok"
         THEN afterAnalyzeTable([m EXCEPT !.q = [k \in Slots |-> IdleSlot]],
                                tableStatsOf(m.q[1].res, m.q[2].res, m.q[3].res, m.q[4].res, m.q[5].res))
         ELSE m
    ELSE \* a direct caller of runQuery: the promise settles and the call is over
         IF m.batch = "none" THEN [m EXCEPT !.q[i] = IdleSlot] ELSE m

(***************************************************************************)
(* The driver: each connection serves its operations in order and calls    *)
(* the callback of each; the database decides the outcome.                 *)
(***************************************************************************)
Outcomes(m, c, head) ==
    LET phase == m.conns[c].phase IN
    CASE head.op = "connect" ->
            \* a handshake on an established connection: the driver decides
            IF phase \in {"opening", "open"}
            THEN {[ok |-> TRUE, res |-> <<>>], [ok |-> FALSE, res |-> <<>>]}
            ELSE {[ok |-> FALSE, res |-> <<>>]}
      [] head.op = "query" ->
            IF phase = "open"
            THEN {[ok |-> TRUE, res |-> r] : r \in QueryResults(head.kind, head.arg)}
                    \cup {[ok |-> FALSE, res |-> <<>>]}
            ELSE {[ok |-> FALSE, res |-> <<>>]}
      [] head.op = "end" -> {[ok |-> TRUE, res |-> <<>>]}

\* the connection after the operation
served(m, c, head, outcome) ==
    LET phase == m.conns[c].phase
        next == CASE head.op = "connect" /\ phase = "opening" -> IF outcome.ok THEN "open" ELSE "closed"
                  [] head.op = "end" -> "closed"
                  [] OTHER -> phase
    IN  [m EXCEPT !.conns[c].queue = Tail(@), !.conns[c].phase = next]

\* the callback and everything it resumes
deliver(m, head, outcome) ==
    LET i == head.who.i IN
    CASE head.who.t = "q" /\ head.op = "connect" ->
            \* runQuery after await this.connectToDatabase()
            IF outcome.ok THEN issueQuery(m, i)
            ELSE settle([m EXCEPT !.q[i].pc = "err"], i)
      [] head.who.t = "q" /\ head.op = "query" ->
            settle([m EXCEPT !.q[i].pc = IF outcome.ok THEN "ok" ELSE "err",
                             !.q[i].res = outcome.res], i)
      [] head.who.t = "c" ->
            [m EXCEPT !.ctask.pc = IF outcome.ok THEN "ok" ELSE "err"]
      [] head.who.t = "a" ->
            \* analyzeTables after await this.connectToDatabase()
            IF outcome.ok THEN getTableNames([m EXCEPT !.apc = "list"])
            ELSE catchBlock(m)
      [] head.who.t = "k" ->
            \* closeConnection after the await: the promise resolves whatever
            \* end() passed to its callback
            [m EXCEPT !.ktask.pc = "done",
                      !.ktask.chain = IF m.ktask.inChain THEN @ + 1 ELSE 0]
      [] OTHER -> m

DriverStep(c) ==
    /\ c \in 1..Len(conns)
    /\ conns[c].queue # <<>>
    /\ LET head == Head(conns[c].queue) IN
       \E outcome \in Outcomes(Cur, c, head) :
          LET m == deliver(served(Cur, c, head, outcome), head, outcome) IN
          /\ Len(m.conns) <= MaxConn
          /\ Install(m)
    /\ UNCHANGED <<dtVars, uiVars>>

(***************************************************************************)
(* The callers.                                                            *)
(***************************************************************************)
\* no call is in flight and the driver has nothing to do
Quiescent(m) ==
    /\ \A i \in Slots : m.q[i].pc \notin {"connecting", "querying"}
    /\ m.ctask.pc # "wait"
    /\ m.ktask.pc # "await"
    /\ m.apc \in {"idle", "done"}
    /\ \A c \in 1..Len(m.conns) : m.conns[c].queue = <<>>

\* a call other than closeConnection ends a succession of closeConnection calls
breakChain(m) == [m EXCEPT !.ktask.chain = 0, !.ktask.chainEnds = 0, !.ktask.inChain = FALSE]

\* app.js: optimizer.analyzeTables() on a new DatabaseOptimizer
ClientAnalyzeTables ==
    /\ apc = "idle"
    /\ Install(connectToDatabase([Cur EXCEPT !.apc = "connect"], TheRun))
    /\ UNCHANGED <<dtVars, uiVars>>

\* a caller of connectToDatabase()
ClientConnect ==
    /\ ctask.pc # "wait"
    /\ LET m0 == breakChain(Cur)
           m == connectToDatabase(m0, TheConnectCall)
           queued == IF m.connection = m0.connection
                     THEN Len(m0.conns[m0.connection].queue) ELSE 0
       IN  /\ Len(m.conns) <= MaxConn
           /\ Install([m EXCEPT !.ctask = [pc |-> "wait",
                                           wasConnected |-> ~isDisconnected(m0),
                                           created |-> Len(m.conns) - Len(m0.conns),
                                           handshakes |-> Len(m.conns[m.connection].queue) - queued]])
    /\ UNCHANGED <<dtVars, uiVars>>

\* a caller of runQuery(), in the lowest slot that is free; calls made one
\* after the other with no driver step between them are parallel calls
ClientRunQuery ==
    /\ \E i \in Slots :
          /\ i <= MaxCalls
          /\ q[i].pc \notin {"connecting", "querying"}
          /\ \A k \in 1..(i - 1) : q[k].pc \in {"connecting", "querying"}
          /\ LET m == runQuery(breakChain(Cur), i, "ping", "") IN
             /\ Len(m.conns) <= MaxConn
             /\ Install(m)
    /\ UNCHANGED <<dtVars, uiVars>>

\* a caller of closeConnection() who awaits it; a call made when nothing is in
\* flight starts a succession, and the next call with no other call between
\* continues it
ClientClose ==
    /\ ktask.pc # "await"
    /\ LET continuing == ktask.pc = "done" /\ ktask.chain = 1
           inChain == continuing \/ Quiescent(Cur)
           chain == IF continuing THEN ktask.chain ELSE 0
           chainEnds == IF continuing THEN ktask.chainEnds ELSE 0
           m == closeConnection(Cur, TheCloseCall)
       IN  IF m # Cur
           THEN Install([m EXCEPT !.ktask = [pc |-> "await", ends |-> 1, chain |-> chain,
                                             chainEnds |-> chainEnds + 1, inChain |-> inChain]])
           ELSE Install([m EXCEPT !.ktask = [pc |-> "done", ends |-> 0,
                                             chain |-> IF inChain THEN chain + 1 ELSE 0,
                                             chainEnds |-> chainEnds, inChain |-> inChain]])
    /\ UNCHANGED <<dtVars, uiVars>>

(***************************************************************************)
(* Spec: one analyzeTables() call on a new instance, as app.js makes it.   *)
(* SpecMgr: callers of connectToDatabase, runQuery and closeConnection.    *)
(***************************************************************************)
Init == IdleMgr /\ IdleRun /\ IdleDT /\ IdleUI

Next == ClientAnalyzeTables \/ (\E c \in 1..MaxConn : DriverStep(c))

Spec == Init /\ [][Next]_vars

NextMgr ==
    \/ ClientConnect
    \/ ClientRunQuery
    \/ ClientClose
    \/ \E c \in 1..MaxConn : DriverStep(c)

SpecMgr == Init /\ [][NextMgr]_vars

(***************************************************************************)
(* SpecDT: getDataTypeOptimizations applied to every bounded argument.     *)
(***************************************************************************)
InitDT ==
    /\ dtTable \in Tables
    /\ dtColumns \in SeqsUpTo(Columns, MaxCols)
    /\ dtResult = Pending
    /\ IdleMgr /\ IdleRun /\ IdleUI

CallGetDataTypeOptimizations ==
    /\ dtResult = Pending
    /\ dtResult' = getDataTypeOptimizations(dtTable, dtColumns)
    /\ UNCHANGED <<dtTable, dtColumns, mgrVars, runVars, uiVars>>

SpecDT == InitDT /\ [][CallGetDataTypeOptimizations]_vars

(***************************************************************************)
(* SpecUI: the unused-index extraction applied to every bounded            *)
(* SHOW TABLE STATUS result.                                               *)
(***************************************************************************)
InitUI ==
    /\ uiRows \in SeqsUpTo(StatusRows, MaxRows)
    /\ uiResult = Pending
    /\ IdleMgr /\ IdleRun /\ IdleDT

ExtractUnusedIndexes ==
    /\ uiResult = Pending
    /\ uiResult' = unusedIndexes(uiRows)
    /\ UNCHANGED <<uiRows, mgrVars, runVars, dtVars>>

SpecUI == InitUI /\ [][ExtractUnusedIndexes]_vars

(***************************************************************************)
(* C9                                                                      *)
(***************************************************************************)
\* the downgrade the static map holds for a declared type of ColumnTypes,
\* written out: <<lower-cased type, recommended type>>, or <<>> for none
ExpectedDowngrade(type) ==
    CASE type = sInt -> <<sInt, sSmallint>>
      [] type = sIntUpper -> <<sInt, sSmallint>>
      [] type = sBigIntMixed -> <<sBigint, sInt>>
      [] type = sText -> <<sText, sVarchar>>
      [] OTHER -> <<>>

\* the positions of the columns that have a downgrade
DowngradedColumns(columns) == {i \in 1..Len(columns) : ExpectedDowngrade(columns[i].COLUMN_TYPE) # <<>>}

\* C9: getDataTypeOptimizations returns, in input column order, exactly one
\* suggestion for each column whose lower-cased declared type is a key of the
\* downgrade map (with a different mapped value), none for any other column,
\* and every suggestion carries the given tableName; [(age,int),(name,varchar)]
\* yields the one suggestion for age.
C9_DataTypeSuggestions ==
    dtResult # Pending =>
        LET P == DowngradedColumns(dtColumns) IN
        /\ Len(dtResult) = Cardinality(P)
        /\ \A k \in 1..Len(dtResult) :
              LET column == dtColumns[KthOf(P, k)]
                  exp == ExpectedDowngrade(column.COLUMN_TYPE)
              IN  /\ dtResult[k].tableName = dtTable
                  /\ dtResult[k].suggestion.rule = "data-type"
                  /\ dtResult[k].suggestion.column = column.COLUMN_NAME
                  /\ dtResult[k].suggestion.from = exp[1]
                  /\ dtResult[k].suggestion.to = exp[2]
        /\ (dtColumns = <<[COLUMN_NAME |-> "age", COLUMN_TYPE |-> sInt],
                          [COLUMN_NAME |-> "name", COLUMN_TYPE |-> sVarchar]>>
              => /\ Len(dtResult) = 1
                 /\ dtResult[1].suggestion.column = "age")

\* the example of C9 has been computed, and a mixed-case type has been downgraded
C9_Witness ==
    /\ dtResult # Pending
    /\ dtColumns = <<[COLUMN_NAME |-> "age", COLUMN_TYPE |-> sInt],
                     [COLUMN_NAME |-> "name", COLUMN_TYPE |-> sVarchar]>>
    /\ Len(dtResult) = 1

C9_WitnessUpper ==
    /\ dtResult # Pending
    /\ Len(dtColumns) = 2
    /\ dtColumns[1].COLUMN_TYPE = sVarchar
    /\ dtColumns[2].COLUMN_TYPE = sBigIntMixed
    /\ Len(dtResult) = 1

(***************************************************************************)
(* C8                                                                      *)
(***************************************************************************)
\* the index_name the extraction yields for a comment of Comments, written
\* out; <<>> where the row yields no entry
ExpectedIndexName(comment) ==
    CASE comment = sExample -> sUnused
      [] comment = sUnused -> sUnused
      [] comment = sTwoUnused -> sTwoUnusedJoined
      [] comment = sTailUnused -> sUnused
      [] OTHER -> <<>>

RowsWithEntry(rows) == {i \in 1..Len(rows) : ExpectedIndexName(rows[i].Comment) # <<>>}

\* C8 as stated: the row with comment "Unused, index_a; Active, index_b" yields
\* exactly one entry for the owning table whose index_name contains
\* "Unused, index_a"; rows with no fragment containing "Unused" yield no entry.
C8_AsStated ==
    uiResult # Pending =>
        /\ Len(uiResult) = Cardinality({i \in 1..Len(uiRows) : includes(uiRows[i].Comment, sUnused)})
        /\ (Len(uiRows) = 1 /\ uiRows[1].Comment = sExample
              => /\ Len(uiResult) = 1
                 /\ uiResult[1].table_name = uiRows[1].Name
                 /\ includes(uiResult[1].index_name, sUnusedIndexA))

\* C8 amended: one entry per row that has a comma-split fragment containing
\* "Unused", in row order, for the owning table; its index_name is those
\* fragments joined with ", " and nothing else of the comment, so the row
\* "Unused, index_a; Active, index_b" yields the index_name "Unused"; rows with
\* no such fragment yield no entry.
C8_Amended ==
    uiResult # Pending =>
        LET P == RowsWithEntry(uiRows) IN
        /\ Len(uiResult) = Cardinality(P)
        /\ Cardinality(P) = Cardinality({i \in 1..Len(uiRows) : includes(uiRows[i].Comment, sUnused)})
        /\ \A k \in 1..Len(uiResult) :
              LET row == uiRows[KthOf(P, k)] IN
              /\ uiResult[k].table_name = row.Name
              /\ uiResult[k].index_name = ExpectedIndexName(row.Comment)
              /\ \A f \in 1..Len(split(uiResult[k].index_name, ",")) :
                    includes(split(uiResult[k].index_name, ",")[f], sUnused)
        /\ (Len(uiRows) = 1 /\ uiRows[1].Comment = sExample
              => /\ Len(uiResult) = 1
                 /\ uiResult[1].index_name = sUnused
                 /\ ~includes(uiResult[1].index_name, sUnusedIndexA))

\* the extraction has run over the example row
C8_Witness ==
    /\ uiResult # Pending
    /\ Len(uiRows) = 1
    /\ uiRows[1].Comment = sExample
    /\ Len(uiResult) = 1

(***************************************************************************)
(* C1                                                                      *)
(***************************************************************************)
RuleRank(rule) ==
    CASE rule = "add-index" -> 1
      [] rule = "partitioning" -> 2
      [] rule = "low-cardinality" -> 3
      [] rule = "unused-indexes" -> 4
      [] rule = "foreign-keys" -> 5
      [] rule = "data-type" -> 6

\* the position of a table in the listing
TablePos(t) == CHOOSE k \in 1..Len(tableNames) : tableNames[k] = t

\* the position of a column among the columns analyzeTable returned for a table
ColumnPos(t, column) ==
    LET h == CHOOSE k \in 1..Len(history) : history[k].tableName = t
    IN  CHOOSE k \in 1..Len(history[h].columns) : history[h].columns[k].COLUMN_NAME = column

\* suggestion a belongs strictly before suggestion b
Before(a, b) ==
    \/ TablePos(a.tableName) < TablePos(b.tableName)
    \/ /\ a.tableName = b.tableName
       /\ \/ RuleRank(a.suggestion.rule) < RuleRank(b.suggestion.rule)
          \/ /\ a.suggestion.rule = "data-type"
             /\ b.suggestion.rule = "data-type"
             /\ ColumnPos(a.tableName, a.suggestion.column) < ColumnPos(b.tableName, b.suggestion.column)

\* C1: when every table was analysed successfully, the sequence analyzeTables
\* returns is ordered by table in listing order, within one table in the rule
\* order add-index, partitioning, low-cardinality, unused-indexes,
\* foreign-keys, data types, and the data-type suggestions in column order.
C1_Ordered ==
    (apc = "done" /\ ~caught) =>
        /\ \A i \in 1..Len(result) : \E k \in 1..Len(tableNames) : tableNames[k] = result[i].tableName
        /\ \A i, j \in 1..Len(result) : i < j => Before(result[i], result[j])

\* two tables listed against the alphabet, the first with all six kinds of
\* suggestion (eight suggestions at least in all)
C1_Witness ==
    /\ apc = "done"
    /\ ~caught
    /\ tableNames = <<"users", "orders">>
    /\ Len(result) >= 8
    /\ \A r \in 1..6 : \E i \in 1..Len(result) :
          result[i].tableName = "users" /\ RuleRank(result[i].suggestion.rule) = r
    /\ \E i \in 1..Len(result) : result[i].tableName = "orders"

(***************************************************************************)
(* C2                                                                      *)
(***************************************************************************)
\* C2: when the analysis of a table fails (analyzeTable returns {}), the run is
\* not aborted: every listed table is analysed, the failed table contributes
\* no suggestion, and the suggestions of the other tables are returned.
C2_FailedTableDoesNotAbort ==
    (apc = "done" /\ \E k \in 1..Len(history) : ~history[k].ok) =>
        /\ ~caught
        /\ Len(history) = Len(tableNames)
        /\ result = suggestions
        /\ \A i \in 1..Len(result) :
              \E k \in 1..Len(history) : history[k].ok /\ history[k].tableName = result[i].tableName

(***************************************************************************)
(* C3                                                                      *)
(***************************************************************************)
RECURSIVE EndsUpTo(_)
\* end() calls made on the first n connections
EndsUpTo(n) == IF n = 0 THEN 0 ELSE conns[n].ends + EndsUpTo(n - 1)

\* C3: when analyzeTables has returned, the connection has been closed exactly
\* once and is in state disconnected.
C3_ClosedOnReturn ==
    apc = "done" =>
        /\ EndsUpTo(Len(conns)) <= 1
        /\ \A c \in 1..Len(conns) : state(Cur, c) = "disconnected"

(***************************************************************************)
(* C7                                                                      *)
(***************************************************************************)
\* the partitioning suggestions for table t in a sequence of suggestions
PartitioningCount(seq, t) ==
    Cardinality({i \in 1..Len(seq) : seq[i].tableName = t /\ seq[i].suggestion.rule = "partitioning"})

\* C7: for a successfully analysed table the partitioning suggestion is
\* emitted exactly once when rowCount > 100000 (150000, 100001) and not at all
\* when rowCount is 100000 or below; a run that returns its suggestions
\* returns it so.
C7_PartitioningBoundary ==
    (Len(history) > 0 /\ history[Len(history)].ok) =>
        LET t == history[Len(history)].tableName
            n == PartitioningCount(suggestions, t)
        IN  /\ tableStats.rowCount \in {100001, 150000} => n = 1
            /\ tableStats.rowCount \in {99999, 100000} => n = 0
            /\ n = (IF tableStats.rowCount > 100000 THEN 1 ELSE 0)
            /\ (apc = "done" /\ ~caught) => PartitioningCount(result, t) = n

\* a table of 100001 rows got the suggestion and the run returned it
C7_Witness ==
    /\ apc = "done"
    /\ ~caught
    /\ Len(history) > 0
    /\ history[Len(history)].ok
    /\ tableStats.rowCount = 100001
    /\ PartitioningCount(result, history[Len(history)].tableName) = 1

(***************************************************************************)
(* C4, C5, C6, C10: the connection manager (SpecMgr).                      *)
(***************************************************************************)
\* C4: a query is handed to the driver only on a connection in state
\* connected, and a runQuery call that had to connect issues it on the
\* connection its own connect attempt opened.
C4_QueryOnlyWhenConnected ==
    \A i \in Slots :
        q[i].pc = "querying" =>
            /\ q[i].issuedOn = "connected"
            /\ q[i].attempt # 0 => q[i].conn = q[i].attempt

\* C5: connectToDatabase() called in state connected creates no connection,
\* makes no further connect call on the existing one and reports success.
C5_ConnectWhenConnectedIsNoOp ==
    (ctask.pc # "idle" /\ ctask.wasConnected) =>
        /\ ctask.created = 0
        /\ ctask.handshakes = 0
        /\ ctask.pc # "err"

\* C6: two closeConnection calls in succession, started when no other call is
\* in flight (never opened, connected or already closed), raise no error, call
\* the driver's end at most once, and leave the state disconnected.
C6_CloseTwice ==
    ktask.chain = 2 =>
        /\ ktask.pc = "done"
        /\ ktask.chainEnds <= 1
        /\ isDisconnected(Cur)

\* two calls in succession on a connected manager: the first one ended the
\* connection
C6_Witness ==
    /\ ktask.chain = 2
    /\ ktask.pc = "done"
    /\ ktask.chainEnds = 1
    /\ connection # 0

\* two calls in succession on a manager that was never opened
C6_WitnessNeverOpened ==
    /\ ktask.chain = 2
    /\ ktask.chainEnds = 0
    /\ connection = 0

\* the connections the driver holds open or is opening
Live == {c \in 1..Len(conns) : conns[c].phase \in {"opening", "open"}}

\* C10: at most one driver connection is created and not yet closed, and it
\* is the one the manager refers to.
C10_SingleConnection ==
    /\ Cardinality(Live) <= 1
    /\ \A c \in Live : c = connection

====
